---- MODULE Spec2Model ----
(***************************************************************************)
(* A model of the piece table of src/src/lib.rs: the buffer store, the     *)
(* piece sequence, locate, split, merge, and the public operations         *)
(* new / from_string / insert / delete / to_string.                        *)
(*                                                                         *)
(* Indices are 0-based as in the source: piece i of the source is           *)
(* pieces[i + 1] here, buffer b is buffers[b + 1], and byte k of a buffer   *)
(* is data[k + 1].  usize is modelled as the integers 0 .. UMax with        *)
(* UMax = 2^UsizeBits - 1; an addition or subtraction that leaves that      *)
(* range panics when the build checks overflow (debug profile) and wraps    *)
(* when it does not (release profile).                                      *)
(***************************************************************************)
EXTENDS Integers, Sequences, FiniteSets

VARIABLES
    buffers,          \* PieceTable.buffers: sequence of [data, capacity]
    pieces,           \* PieceTable.pieces: sequence of [buffer_index, start, end]
    overflow_checks,  \* build profile: TRUE = overflow panics, FALSE = overflow wraps
    panicked,         \* TRUE once a call has panicked (the call never returned)
    doc,              \* the plain string reference model the same calls are applied to
    call,             \* the last public call: its name, overflow flag and result
    deleted,          \* TRUE once delete has been called
    pc,               \* position inside delete: "idle" or "loop" (SpecLoop only)
    rem,              \* delete's local `len` while its loop runs (SpecLoop only)
    cur               \* delete's local `pos.piece_index` while its loop runs (SpecLoop only)

vars == <<buffers, pieces, overflow_checks, panicked, doc, call, deleted, pc, rem, cur>>

(***************************************************************************)
(* Bounds of the model.                                                    *)
(***************************************************************************)
UsizeBits == 4      \* width of usize in the model
MaxBytes == 3       \* inserts stop once the buffers hold this many bytes
MaxText == 2        \* longest text given to from_string or insert
MaxSpare == 2       \* largest spare capacity of the String given to from_string
MaxPieces == 4      \* inserts stop once the sequence would exceed this many pieces
MaxBuffers == 3     \* inserts stop once the store would exceed this many buffers

Modulus == 2 ^ UsizeBits
UMax == Modulus - 1

Min(a, b) == IF a < b THEN a ELSE b
Max(a, b) == IF a > b THEN a ELSE b

\* usize addition and subtraction as the machine performs them when it wraps,
\* and whether they leave the range of usize.
Add(a, b) == (a + b) % Modulus
Sub(a, b) == (a - b + Modulus) % Modulus
AddOverflows(a, b) == a + b > UMax
SubOverflows(a, b) == a < b

\* The text of length n a call is given.  The table never reads the value of a
\* byte, so every byte written is given a value of its own (its ordinal among
\* all bytes written so far): two texts then differ wherever their bytes come
\* from different places.
NewText(written, n) == [k \in 1 .. n |-> written + k]

(***************************************************************************)
(* Piece                                                                   *)
(***************************************************************************)
Piece(b, s, e) == [buffer_index |-> b, start |-> s, end |-> e]

PieceLen(p) == Sub(p.end, p.start)

\* Mutant of Before: the offset is counted from the end of the piece.
BeforeFromEnd(p, offset) == Piece(p.buffer_index, p.start, Add(offset, p.end))

Before(p, offset) == Piece(p.buffer_index, p.start, Add(offset, p.start))

After(p, offset) == Piece(p.buffer_index, Add(p.start, offset), p.end)

\* The condition under which Piece::merge absorbs `piece` into `self`.
CanMerge(self, piece) ==
    piece.buffer_index = self.buffer_index /\ piece.start = self.end

\* Piece::merge: the receiver after the call.
Merge(self, piece) ==
    IF CanMerge(self, piece) THEN [self EXCEPT !.end = piece.end] ELSE self

(***************************************************************************)
(* Sequence helpers (Vec::insert, Vec::remove, indexed assignment)         *)
(***************************************************************************)
VecInsert(s, i, x) == SubSeq(s, 1, i) \o <<x>> \o SubSeq(s, i + 1, Len(s))
VecRemove(s, i) == SubSeq(s, 1, i) \o SubSeq(s, i + 2, Len(s))
VecSet(s, i, x) == [s EXCEPT ![i + 1] = x]
VecGet(s, i) == s[i + 1]

(***************************************************************************)
(* Location and PieceTable::locate                                         *)
(***************************************************************************)
Location(index, offset) == [piece_index |-> index, offset |-> offset]

\* The for loop of locate from piece `index` on, `offset` being the running total.
RECURSIVE LocateFrom(_, _, _, _)
LocateFrom(ps, position, index, offset) ==
    IF index >= Len(ps)
    THEN Location(Len(ps), 0)
    ELSE LET piece == VecGet(ps, index)
             total == Add(offset, PieceLen(piece))
         IN  IF position < total
             THEN Location(index, Sub(PieceLen(piece), Sub(total, position)))
             ELSE IF position = total
                  THEN Location(index + 1, 0)
                  ELSE LocateFrom(ps, position, index + 1, total)

Locate(ps, position) == LocateFrom(ps, position, 0, 0)

\* Whether the running total of locate leaves the range of usize.
RECURSIVE LocateOverflowsFrom(_, _, _, _)
LocateOverflowsFrom(ps, position, index, offset) ==
    IF index >= Len(ps)
    THEN FALSE
    ELSE LET piece == VecGet(ps, index)
             total == Add(offset, PieceLen(piece))
         IN  \/ SubOverflows(piece.end, piece.start)
             \/ AddOverflows(offset, PieceLen(piece))
             \/ /\ position > total
                /\ LocateOverflowsFrom(ps, position, index + 1, total)

LocateOverflows(ps, position) == LocateOverflowsFrom(ps, position, 0, 0)

(***************************************************************************)
(* PieceTable::split.  The result holds the piece sequence after the call, *)
(* the returned insertion index, and whether an addition or subtraction    *)
(* left the range of usize.  With `checked` the call panics at the first   *)
(* such operation and `pieces` is the sequence as the panic leaves it.     *)
(***************************************************************************)
SplitResult(ps, index, overflow) ==
    [pieces |-> ps, index |-> index, overflow |-> overflow]

\* The branch loc.offset == 0 of split.
SplitAtStart(ps, loc, gap, checked) ==
    LET piece == VecGet(ps, loc.piece_index)
        after == After(piece, gap)
        ovf   == \/ AddOverflows(piece.start, gap)
                 \/ SubOverflows(after.end, after.start)
    IN  IF ovf /\ checked
        THEN SplitResult(ps, loc.piece_index, TRUE)
        ELSE IF PieceLen(after) > 0
             THEN SplitResult(VecSet(ps, loc.piece_index, after), loc.piece_index, ovf)
             ELSE SplitResult(VecRemove(ps, loc.piece_index), loc.piece_index, ovf)

\* Mutant of SplitInside: the suffix piece is created whatever the gap.
SplitInsideKeepSuffix(ps, loc, gap, checked) ==
    LET piece == VecGet(ps, loc.piece_index)
        from  == Min(loc.offset + gap, PieceLen(piece))
    IN  SplitResult(VecInsert(VecSet(ps, loc.piece_index, Before(piece, loc.offset)),
                              loc.piece_index + 1, After(piece, from)),
                    loc.piece_index + 1, FALSE)

\* The branch 0 < loc.offset < piece.len() of split.
SplitInside(ps, loc, gap, checked) ==
    LET piece    == VecGet(ps, loc.piece_index)
        ovfB     == AddOverflows(loc.offset, piece.start)
        truncated == VecSet(ps, loc.piece_index, Before(piece, loc.offset))
        ovfG     == AddOverflows(gap, loc.offset)
        sum      == Add(gap, loc.offset)
        ovfA     == AddOverflows(piece.start, Add(loc.offset, gap))
    IN  IF ovfB /\ checked
        THEN SplitResult(ps, loc.piece_index + 1, TRUE)
        ELSE IF ovfG /\ checked
             THEN SplitResult(truncated, loc.piece_index + 1, TRUE)
             ELSE IF sum < PieceLen(piece)
                  THEN IF ovfA /\ checked
                       THEN SplitResult(truncated, loc.piece_index + 1, TRUE)
                       ELSE SplitResult(
                                VecInsert(truncated, loc.piece_index + 1,
                                          After(piece, Add(loc.offset, gap))),
                                loc.piece_index + 1, ovfB \/ ovfG \/ ovfA)
                  ELSE SplitResult(truncated, loc.piece_index + 1, ovfB \/ ovfG)

Split(ps, loc, gap, checked) ==
    IF loc.piece_index < Len(ps)
    THEN IF loc.offset = 0
         THEN SplitAtStart(ps, loc, gap, checked)
         ELSE IF loc.offset < PieceLen(VecGet(ps, loc.piece_index))
              THEN SplitInside(ps, loc, gap, checked)
              ELSE SplitResult(ps, loc.piece_index + 1, FALSE)
    ELSE SplitResult(ps, loc.piece_index, FALSE)

(***************************************************************************)
(* Buffer store                                                            *)
(***************************************************************************)
Buffer(data, capacity) == [data |-> data, capacity |-> capacity]

\* The fold of add_buffer: the sum of the lengths of all buffers.
RECURSIVE SumLens(_)
SumLens(bufs) ==
    IF bufs = <<>> THEN 0 ELSE Len(Head(bufs).data) + SumLens(Tail(bufs))

AddBuffer(bufs, min_capacity) ==
    Append(bufs, Buffer(<<>>, Max(min_capacity, SumLens(bufs))))

\* Mutant of HasRoom: the last buffer is kept when the text just fits.
HasRoomForExactFit(bufs, capacity) ==
    /\ bufs # <<>>
    /\ bufs[Len(bufs)].capacity - Len(bufs[Len(bufs)].data) >= capacity

\* Whether buffer_with_capacity keeps the last buffer.
HasRoom(bufs, capacity) ==
    /\ bufs # <<>>
    /\ bufs[Len(bufs)].capacity - Len(bufs[Len(bufs)].data) > capacity

BufferWithCapacity(bufs, capacity) ==
    IF HasRoom(bufs, capacity) THEN bufs ELSE AddBuffer(bufs, capacity)

\* Mutant of PushStr: the text replaces the content of the buffer.
PushStrOverwrite(buf, s) == Buffer(s, Max(buf.capacity, Len(s)))

\* `*buffer += s`: String::push_str, which reallocates (amortised doubling, at
\* least 8 bytes) only when the text does not fit the capacity.
PushStr(buf, s) ==
    LET need == Len(buf.data) + Len(s)
    IN  Buffer(buf.data \o s,
               IF need <= buf.capacity
               THEN buf.capacity
               ELSE Max(8, Max(2 * buf.capacity, need)))

(***************************************************************************)
(* to_string                                                               *)
(***************************************************************************)
PieceText(bufs, piece) ==
    SubSeq(VecGet(bufs, piece.buffer_index).data, piece.start + 1, piece.end)

RECURSIVE ToString(_, _)
ToString(ps, bufs) ==
    IF ps = <<>>
    THEN <<>>
    ELSE PieceText(bufs, Head(ps)) \o ToString(Tail(ps), bufs)

\* The length of the logical text.
RECURSIVE DocLen(_)
DocLen(ps) == IF ps = <<>> THEN 0 ELSE PieceLen(Head(ps)) + DocLen(Tail(ps))

(***************************************************************************)
(* PieceTable::insert.  The result holds the table after the call and      *)
(* whether an addition or subtraction left the range of usize; with        *)
(* `checked` the call panics there, before the new piece is placed.        *)
(***************************************************************************)
TableResult(ps, bufs, overflow) ==
    [pieces |-> ps, buffers |-> bufs, overflow |-> overflow]

\* Mutant of Place: the new piece is never merged into its left neighbour.
PlaceNoMerge(ps, index, piece) == VecInsert(ps, index, piece)

\* Lines 193-195 of insert: merge into the left neighbour or place the piece.
Place(ps, index, piece) ==
    IF index = 0 \/ ~CanMerge(VecGet(ps, index - 1), piece)
    THEN VecInsert(ps, index, piece)
    ELSE VecSet(ps, index - 1, Merge(VecGet(ps, index - 1), piece))

InsertOp(ps, bufs, position, s, checked) ==
    LET store        == BufferWithCapacity(bufs, Len(s))
        buffer_index == Len(store) - 1
        start        == Len(VecGet(store, buffer_index).data)
        end          == start + Len(s)
        written      == VecSet(store, buffer_index,
                               PushStr(VecGet(store, buffer_index), s))
        piece        == Piece(buffer_index, start, end)
        loc          == Locate(ps, position)
        sp           == Split(ps, loc, 0, checked)
        ovf          == LocateOverflows(ps, position) \/ sp.overflow
    IN  IF ovf /\ checked
        THEN TableResult(sp.pieces, written, TRUE)
        ELSE TableResult(Place(sp.pieces, sp.index, piece), written, ovf)

(***************************************************************************)
(* PieceTable::delete.  A DeleteState is the piece sequence together with  *)
(* the locals `pos.piece_index` and `len` of delete, whether an operation  *)
(* left the range of usize, and whether the call has panicked.             *)
(***************************************************************************)
DeleteState(ps, index, len, overflow, panic) ==
    [pieces |-> ps, index |-> index, len |-> len,
     overflow |-> overflow, panic |-> panic]

\* Lines 199-207: locate, and the split inside the first piece.
DeleteFirst(ps, position, len, checked) ==
    LET pos  == Locate(ps, position)
        lovf == LocateOverflows(ps, position)
    IN  IF lovf /\ checked
        THEN DeleteState(ps, pos.piece_index, len, TRUE, TRUE)
        ELSE IF pos.offset > 0
             THEN LET plen == PieceLen(VecGet(ps, pos.piece_index))
                      gap  == Min(len, Sub(plen, pos.offset))
                      sp   == Split(ps, pos, len, checked)
                  IN  IF sp.overflow /\ checked
                      THEN DeleteState(sp.pieces, pos.piece_index, len, TRUE, TRUE)
                      ELSE DeleteState(sp.pieces, pos.piece_index + 1,
                                       Sub(len, gap), lovf \/ sp.overflow, FALSE)
             ELSE DeleteState(ps, pos.piece_index, len, lovf, FALSE)

\* Line 209: the condition of the while loop.
LoopCondition(st) == st.len > 0 /\ Len(st.pieces) > st.index

\* Mutant of DeleteIter: `len -= gap` is left out.
DeleteIterKeepLen(st, checked) ==
    LET gap == Min(st.len, PieceLen(VecGet(st.pieces, st.index)))
        sp  == Split(st.pieces, Location(st.index, 0), gap, checked)
    IN  DeleteState(sp.pieces, st.index, st.len, st.overflow \/ sp.overflow, FALSE)

\* Lines 210-212: one iteration of the while loop.
DeleteIter(st, checked) ==
    LET gap == Min(st.len, PieceLen(VecGet(st.pieces, st.index)))
        sp  == Split(st.pieces, Location(st.index, 0), gap, checked)
    IN  IF sp.overflow /\ checked
        THEN DeleteState(sp.pieces, st.index, st.len, TRUE, TRUE)
        ELSE DeleteState(sp.pieces, st.index, Sub(st.len, gap),
                         st.overflow \/ sp.overflow, FALSE)

\* Lines 209-213: the while loop run to its end.
RECURSIVE DeleteLoop(_, _)
DeleteLoop(st, checked) ==
    IF ~st.panic /\ LoopCondition(st)
    THEN DeleteLoop(DeleteIter(st, checked), checked)
    ELSE st

DeleteOp(ps, position, len, checked) ==
    DeleteLoop(DeleteFirst(ps, position, len, checked), checked)

(***************************************************************************)
(* The plain string reference model                                        *)
(***************************************************************************)
RefInsert(d, position, s) ==
    LET p == Min(position, Len(d))
    IN  SubSeq(d, 1, p) \o s \o SubSeq(d, p + 1, Len(d))

RefDelete(d, position, len) ==
    IF position >= Len(d)
    THEN d
    ELSE SubSeq(d, 1, position) \o SubSeq(d, Min(position + len, Len(d)) + 1, Len(d))

(***************************************************************************)
(* The state machine                                                       *)
(***************************************************************************)
\* A record of a public call: `overflow` tells whether an addition or
\* subtraction of the call left the range of usize, `result` is the text
\* to_string returned (empty for the calls that return nothing).
Call(op, overflow, result) ==
    [op |-> op, overflow |-> overflow, result |-> result]

\* PieceTable::new()
InitNew ==
    /\ buffers = <<>>
    /\ pieces = <<>>
    /\ doc = <<>>
    /\ call = Call("new", FALSE, <<>>)

\* PieceTable::from_string(s), s a String of any capacity >= its length
InitFromString ==
    \E n \in 0 .. MaxText, spare \in 0 .. MaxSpare :
        LET s == NewText(0, n)
        IN  /\ buffers = <<Buffer(s, Len(s) + spare)>>
            /\ pieces = <<Piece(0, 0, Len(s))>>
            /\ doc = s
            /\ call = Call("from_string", FALSE, <<>>)

Init ==
    /\ InitNew \/ InitFromString
    /\ overflow_checks \in BOOLEAN
    /\ panicked = FALSE
    /\ deleted = FALSE
    /\ pc = "idle"
    /\ rem = 0
    /\ cur = 0

\* The arguments the calls are tried with: every position and length up to the
\* end of the text, and the largest values of usize.
Positions == (0 .. DocLen(pieces)) \cup {UMax}
Lengths == (0 .. DocLen(pieces)) \cup {UMax - 1, UMax}

Insert(position, s) ==
    /\ pc = "idle"
    /\ ~panicked
    /\ SumLens(buffers) + Len(s) <= MaxBytes
    /\ LET r == InsertOp(pieces, buffers, position, s, overflow_checks)
       IN  /\ Len(r.pieces) <= MaxPieces
           /\ Len(r.buffers) <= MaxBuffers
           /\ pieces' = r.pieces
           /\ buffers' = r.buffers
           /\ panicked' = (overflow_checks /\ r.overflow)
           /\ call' = Call("insert", r.overflow, <<>>)
    /\ doc' = RefInsert(doc, position, s)
    /\ UNCHANGED <<overflow_checks, deleted, pc, rem, cur>>

InsertCall ==
    \E position \in Positions, n \in 0 .. MaxText :
        Insert(position, NewText(SumLens(buffers), n))

Delete(position, len) ==
    /\ pc = "idle"
    /\ ~panicked
    /\ deleted' = TRUE
    /\ doc' = RefDelete(doc, position, len)
    /\ LET r == DeleteOp(pieces, position, len, overflow_checks)
       IN  /\ pieces' = r.pieces
           /\ panicked' = r.panic
           /\ call' = Call("delete", r.overflow, <<>>)
    /\ UNCHANGED <<buffers, overflow_checks, pc, rem, cur>>

DeleteCall == \E position \in Positions, len \in Lengths : Delete(position, len)

\* Mutant of ToStringCall: the pieces are drained while the text is built.
ToStringCallDraining ==
    /\ pc = "idle"
    /\ ~panicked
    /\ call' = Call("to_string", FALSE, ToString(pieces, buffers))
    /\ pieces' = <<>>
    /\ UNCHANGED <<buffers, overflow_checks, panicked, doc, deleted, pc, rem, cur>>

ToStringCall ==
    /\ pc = "idle"
    /\ ~panicked
    /\ call' = Call("to_string", FALSE, ToString(pieces, buffers))
    /\ UNCHANGED <<buffers, pieces, overflow_checks, panicked, doc, deleted, pc, rem, cur>>

Next == InsertCall \/ DeleteCall \/ ToStringCall

Spec == Init /\ [][Next]_vars

(***************************************************************************)
(* The same machine with delete run one loop iteration at a time: the call *)
(* is entered by DeleteEnter (lines 199-207), each DeleteStep is one       *)
(* iteration of the while loop (lines 209-213) and DeleteReturn is the     *)
(* exit of the loop.  No other call starts while pc = "loop"; a call that  *)
(* panics in lines 199-207 never enters the loop.                          *)
(***************************************************************************)
DeleteEnter(position, len) ==
    /\ pc = "idle"
    /\ ~panicked
    /\ LET st == DeleteFirst(pieces, position, len, overflow_checks)
       IN  /\ pieces' = st.pieces
           /\ cur' = st.index
           /\ rem' = st.len
           /\ panicked' = st.panic
           /\ call' = Call("delete", st.overflow, <<>>)
           /\ pc' = IF st.panic THEN "idle" ELSE "loop"
    /\ doc' = RefDelete(doc, position, len)
    /\ deleted' = TRUE
    /\ UNCHANGED <<buffers, overflow_checks>>

DeleteEnterCall == \E position \in Positions, len \in Lengths : DeleteEnter(position, len)

DeleteStep ==
    /\ pc = "loop"
    /\ ~panicked
    /\ LoopCondition(DeleteState(pieces, cur, rem, call.overflow, FALSE))
    /\ LET st == DeleteIter(DeleteState(pieces, cur, rem, call.overflow, FALSE),
                            overflow_checks)
       IN  /\ pieces' = st.pieces
           /\ cur' = st.index
           /\ rem' = st.len
           /\ panicked' = st.panic
           /\ call' = Call("delete", st.overflow, <<>>)
    /\ UNCHANGED <<buffers, overflow_checks, doc, deleted, pc>>

DeleteReturn ==
    /\ pc = "loop"
    /\ ~panicked
    /\ ~LoopCondition(DeleteState(pieces, cur, rem, call.overflow, FALSE))
    /\ pc' = "idle"
    /\ rem' = 0
    /\ cur' = 0
    /\ UNCHANGED <<buffers, pieces, overflow_checks, panicked, doc, call, deleted>>

NextLoop == InsertCall \/ DeleteEnterCall \/ DeleteStep \/ DeleteReturn \/ ToStringCall

SpecLoop == Init /\ [][NextLoop]_vars

(***************************************************************************)
(* Properties                                                              *)
(***************************************************************************)
\* Two adjacent pieces that Piece::merge would merge.
MergeablePair(ps, i) == CanMerge(ps[i], ps[i + 1])

IsEmptyPiece(p) == p.start = p.end

HasEmptyPiece(ps) == \E i \in 1 .. Len(ps) : IsEmptyPiece(ps[i])

IsPrefix(s, t) == Len(s) <= Len(t) /\ SubSeq(t, 1, Len(s)) = s

\* C1: after every insert and delete the call has returned and to_string()
\* equals the content of the plain string reference model the same calls
\* were applied to.
C1_RoundTrip == ~panicked /\ ToString(pieces, buffers) = doc

\* C2: no piece of the sequence has zero length, whatever string the table
\* was built from and whatever text was inserted.
C2_NoEmptyPiece == \A i \in 1 .. Len(pieces) : ~IsEmptyPiece(pieces[i])

C4_InsertPastEndIsAppend ==
    [][\A position \in Positions, n \in 0 .. MaxText :
           LET s == NewText(SumLens(buffers), n)
               r == InsertOp(pieces, buffers, DocLen(pieces), s, overflow_checks)
           IN  (position >= DocLen(pieces) /\ Insert(position, s))
                   => pieces' = r.pieces /\ buffers' = r.buffers]_vars

\* C5: delete(position, length) with position >= the length of the text
\* changes neither the piece sequence nor the buffers.
C5_DeletePastEndIsNoOp ==
    [][\A position \in Positions, len \in Lengths :
           (position >= DocLen(pieces) /\ Delete(position, len))
               => pieces' = pieces /\ buffers' = buffers]_vars

\* C6: delete(position, length) with position < L and position + length > L
\* returns and leaves to_string() equal to the first `position` bytes of the
\* text before the call.
C6_DeleteTruncatesAtEnd ==
    [][\A position \in Positions, len \in Lengths :
           (/\ position < DocLen(pieces)
            /\ position + len > DocLen(pieces)
            /\ Delete(position, len))
               => /\ ~panicked'
                  /\ ToString(pieces', buffers')
                         = SubSeq(ToString(pieces, buffers), 1, position)]_vars

\* C7: no addition or subtraction of a call leaves the range of usize, and
\* no call panics.
C7_NoOverflow == ~call.overflow /\ ~panicked

\* C8: whenever the loop of delete is about to run an iteration, that
\* iteration completes and either removes a piece from the sequence or brings
\* the remaining length to zero; the number of pieces left plus one bounds the
\* iterations still to come, so the loop ends.
C8_LoopProgress ==
    LET st == DeleteState(pieces, cur, rem, call.overflow, FALSE)
        after == DeleteIter(st, overflow_checks)
    IN  (pc = "loop" /\ LoopCondition(st))
            => /\ ~after.panic
               /\ after.index = st.index
               /\ Len(after.pieces) < Len(pieces) \/ after.len = 0

\* The loop of delete is about to run on a piece of length 0 with a remaining
\* length greater than the length of the whole text.
C8_Witness ==
    /\ pc = "loop"
    /\ cur < Len(pieces)
    /\ IsEmptyPiece(VecGet(pieces, cur))
    /\ rem > DocLen(pieces)

C10_BuffersAppendOnly ==
    [][/\ Len(buffers') >= Len(buffers)
       /\ \A i \in 1 .. Len(buffers) :
              /\ IsPrefix(buffers[i].data, buffers'[i].data)
              /\ i < Len(buffers') => buffers'[i].data = buffers[i].data
       /\ call'.op = "delete" => buffers' = buffers]_vars

\* An insert has appended to the last of several buffers, the earlier ones
\* holding text.
C10_Witness ==
    /\ call.op = "insert"
    /\ Len(buffers) >= 2
    /\ Len(buffers[1].data) > 0
    /\ Len(buffers[Len(buffers)].data) > 0

\* A piece whose range lies inside the buffer it names.
PieceInBounds(p, bufs) ==
    /\ p.buffer_index < Len(bufs)
    /\ 0 <= p.start
    /\ p.start <= p.end
    /\ p.end <= Len(VecGet(bufs, p.buffer_index).data)

\* C11: in every reachable state every piece names an existing buffer and
\* satisfies 0 <= start <= end <= length of that buffer, so piece_text never
\* reads outside the buffer.
C11_PiecesInBounds ==
    \A i \in 1 .. Len(pieces) : PieceInBounds(pieces[i], buffers)

\* delete has left a piece that starts after the first byte of its buffer and
\* ends before the last one, next to another piece.
C11_Witness ==
    /\ call.op = "delete"
    /\ Len(pieces) >= 2
    /\ \E i \in 1 .. Len(pieces) :
           /\ pieces[i].start > 0
           /\ pieces[i].start < pieces[i].end
           /\ pieces[i].end < Len(VecGet(buffers, pieces[i].buffer_index).data)

\* The offsets in the text at which piece i (counted from 1) starts and ends.
PieceFrom(ps, i) == DocLen(SubSeq(ps, 1, i - 1))
PieceTo(ps, i) == DocLen(SubSeq(ps, 1, i))

\* Piece i has a byte in the range [from, to) / lies entirely inside it.
Touched(ps, i, from, to) == PieceFrom(ps, i) < to /\ PieceTo(ps, i) > from
Covered(ps, i, from, to) == from <= PieceFrom(ps, i) /\ PieceTo(ps, i) <= to

TouchedPieces(ps, from, to) == {i \in 1 .. Len(ps) : Touched(ps, i, from, to)}
CoveredPieces(ps, from, to) == {i \in 1 .. Len(ps) : Covered(ps, i, from, to)}

\* What a delete of [from, to) that spans several pieces keeps of piece i:
\* nothing of a covered piece, the prefix of the piece the range starts in,
\* the suffix of the piece the range ends in, and every other piece as it is.
KeptOf(ps, i, from, to) ==
    LET p == ps[i]
    IN  IF Covered(ps, i, from, to)
        THEN <<>>
        ELSE IF ~Touched(ps, i, from, to)
             THEN <<p>>
             ELSE IF PieceFrom(ps, i) < from
                  THEN <<Piece(p.buffer_index, p.start,
                               p.start + (from - PieceFrom(ps, i)))>>
                  ELSE <<Piece(p.buffer_index,
                               p.start + (to - PieceFrom(ps, i)), p.end)>>

RECURSIVE KeptFrom(_, _, _, _)
KeptFrom(ps, i, from, to) ==
    IF i > Len(ps)
    THEN <<>>
    ELSE KeptOf(ps, i, from, to) \o KeptFrom(ps, i + 1, from, to)

\* C12: a delete whose range has bytes of several pieces removes every piece
\* that lies entirely inside the range and keeps, of the two partially covered
\* pieces, the prefix of the first and the suffix of the last; the piece count
\* drops by the number of entirely covered pieces.
C12_DeleteAcrossPieces ==
    [][\A position \in Positions, len \in Lengths :
           LET to == Min(position + len, DocLen(pieces))
           IN  (/\ Cardinality(TouchedPieces(pieces, position, to)) >= 2
                /\ Delete(position, len))
                   => /\ pieces' = KeptFrom(pieces, 1, position, to)
                      /\ Len(pieces')
                            = Len(pieces)
                                - Cardinality(CoveredPieces(pieces, position, to))]_vars

\* The range [from, to) starts after the first byte of a piece and ends before
\* the last byte of the same piece.
StrictlyInsideAPiece(ps, from, to) ==
    \E i \in 1 .. Len(ps) : PieceFrom(ps, i) < from /\ to < PieceTo(ps, i)

\* C13: in every state in which delete can be called, a delete whose range
\* lies strictly inside one piece increases the piece count by exactly one;
\* every other delete (a range that starts at the first byte of a piece, or
\* reaches or passes the end of the piece it starts in, or starts past the
\* end) does not increase it.
C13_DeleteAddsPieceOnlyInside ==
    (pc = "idle" /\ ~panicked)
        => \A position \in Positions, len \in Lengths :
               LET r == DeleteOp(pieces, position, len, overflow_checks)
               IN  IF StrictlyInsideAPiece(pieces, position, position + len)
                   THEN Len(r.pieces) = Len(pieces) + 1
                   ELSE Len(r.pieces) <= Len(pieces)

\* delete has cut bytes out of the middle of a piece: two neighbours of one
\* buffer with a gap between them.
C13_Witness ==
    /\ call.op = "delete"
    /\ \E i \in 1 .. Len(pieces) - 1 :
           /\ pieces[i].buffer_index = pieces[i + 1].buffer_index
           /\ pieces[i].start < pieces[i].end
           /\ pieces[i].end < pieces[i + 1].start
           /\ pieces[i + 1].start < pieces[i + 1].end

\* The piece insert creates for a text of n bytes: the last n bytes of the
\* last buffer of the store after the call.
InsertedPiece(bufs, n) ==
    Piece(Len(bufs) - 1, Len(bufs[Len(bufs)].data) - n, Len(bufs[Len(bufs)].data))

\* The pieces that have bytes on both sides of offset `at` of the text.
PiecesAround(ps, at) ==
    {i \in 1 .. Len(ps) : PieceFrom(ps, i) < at /\ at < PieceTo(ps, i)}

\* C14: insert at a position strictly inside a piece replaces that piece by
\* its prefix, the new piece and its suffix (two pieces more); insert at a
\* piece boundary keeps every piece and adds the new one (one piece more), or
\* extends the left neighbour that absorbs it (no piece more).
C14_InsertSplitsOnlyInside ==
    [][\A position \in Positions, n \in 0 .. MaxText :
           Insert(position, NewText(SumLens(buffers), n))
               => LET at  == Min(position, DocLen(pieces))
                      new == InsertedPiece(buffers', n)
                  IN  IF PiecesAround(pieces, at) # {}
                      THEN LET i == CHOOSE k \in PiecesAround(pieces, at) : TRUE
                               p == pieces[i]
                               o == at - PieceFrom(pieces, i)
                           IN  pieces' = SubSeq(pieces, 1, i - 1)
                                   \o <<Piece(p.buffer_index, p.start, p.start + o),
                                        new,
                                        Piece(p.buffer_index, p.start + o, p.end)>>
                                   \o SubSeq(pieces, i + 1, Len(pieces))
                      ELSE \/ \E k \in 0 .. Len(pieces) :
                                 pieces' = VecInsert(pieces, k, new)
                           \/ \E k \in 1 .. Len(pieces) :
                                 /\ CanMerge(pieces[k], new)
                                 /\ pieces' = [pieces EXCEPT ![k].end = new.end]]_vars

\* The remaining capacity of the last buffer exceeds n.
LastBufferHolds(bufs, n) ==
    /\ bufs # <<>>
    /\ bufs[Len(bufs)].capacity - Len(bufs[Len(bufs)].data) > n

\* Piece p ends at the tail of the last buffer.
EndsAtTail(p, bufs) ==
    /\ bufs # <<>>
    /\ p.buffer_index = Len(bufs) - 1
    /\ p.end = Len(bufs[Len(bufs)].data)

\* C15: in every state in which insert can be called, an insert that resolves
\* to an insertion index whose left neighbour ends at the tail of the last
\* buffer, that buffer having more than len(text) bytes of capacity left,
\* leaves the piece count unchanged and only extends that neighbour's end by
\* len(text).
C15_SequentialTypingExtends ==
    (pc = "idle" /\ ~panicked)
        => \A position \in Positions, n \in 0 .. MaxText :
               LET s     == NewText(SumLens(buffers), n)
                   sp    == Split(pieces, Locate(pieces, position), 0, overflow_checks)
                   index == sp.index
                   r     == InsertOp(pieces, buffers, position, s, overflow_checks)
               IN  (/\ index > 0
                    /\ EndsAtTail(VecGet(sp.pieces, index - 1), buffers)
                    /\ LastBufferHolds(buffers, n))
                       => /\ Len(r.pieces) = Len(pieces)
                          /\ r.pieces = [pieces EXCEPT ![index].end = @ + n]

NoMergeablePair(ps) == \A i \in 1 .. Len(ps) - 1 : ~MergeablePair(ps, i)

\* C16: in every state in which insert can be called and no two adjacent
\* pieces are mergeable, an insert of a non-empty text leaves no two adjacent
\* pieces mergeable; in particular the piece that ends with the new text is
\* not mergeable with its right neighbour.
C16_LeftMergeSuffices ==
    (pc = "idle" /\ ~panicked /\ NoMergeablePair(pieces))
        => \A position \in Positions, n \in 1 .. MaxText :
               LET s == NewText(SumLens(buffers), n)
                   r == InsertOp(pieces, buffers, position, s, overflow_checks)
               IN  /\ NoMergeablePair(r.pieces)
                   /\ \A k \in 1 .. Len(r.pieces) - 1 :
                          EndsAtTail(r.pieces[k], r.buffers)
                              => ~CanMerge(r.pieces[k], r.pieces[k + 1])

\* After a delete, an insert of a non-empty text has put the new text in front
\* of a piece of the same buffer, and no two adjacent pieces are mergeable.
C16_Witness ==
    /\ call.op = "insert"
    /\ deleted
    /\ NoMergeablePair(pieces)
    /\ \E k \in 1 .. Len(pieces) - 1 :
           /\ EndsAtTail(pieces[k], buffers)
           /\ pieces[k].start < pieces[k].end
           /\ pieces[k + 1].buffer_index = pieces[k].buffer_index
           /\ pieces[k + 1].start < pieces[k + 1].end

\* C17: delete(position, 0) leaves the piece sequence and the buffers as they
\* are, whatever the position.
C17_DeleteNothingIsNoOp ==
    [][\A position \in Positions :
           Delete(position, 0) => pieces' = pieces /\ buffers' = buffers]_vars

\* C18: for every position, locate returns (i, o) with
\* length(pieces[0..i)) + o = min(position, length of the text), and either
\* i < len(pieces) and 0 <= o < length(pieces[i]), or i = len(pieces) and
\* o = 0; so a position on a piece boundary resolves to offset 0 of the
\* following piece.
C18_LocateResolves ==
    \A position \in 0 .. UMax :
        LET loc == Locate(pieces, position)
            i   == loc.piece_index
            o   == loc.offset
        IN  /\ i \in 0 .. Len(pieces)
            /\ DocLen(SubSeq(pieces, 1, i)) + o = Min(position, DocLen(pieces))
            /\ \/ i < Len(pieces) /\ 0 <= o /\ o < PieceLen(VecGet(pieces, i))
               \/ i = Len(pieces) /\ o = 0

\* C19: insert writes the text to the last buffer exactly when that buffer has
\* more than len(text) bytes of capacity left, and otherwise to a new buffer
\* of capacity max(len(text), sum of the lengths of the buffers); no buffer
\* ever changes its capacity, and no buffer holds more than its capacity.
C19_BufferReuse ==
    [][/\ call'.op = "insert"
           => LET n == SumLens(buffers') - SumLens(buffers)
              IN  IF LastBufferHolds(buffers, n)
                  THEN /\ Len(buffers') = Len(buffers)
                       /\ Len(buffers'[Len(buffers)].data)
                              = Len(buffers[Len(buffers)].data) + n
                  ELSE /\ Len(buffers') = Len(buffers) + 1
                       /\ buffers'[Len(buffers')].capacity = Max(n, SumLens(buffers))
                       /\ Len(buffers'[Len(buffers')].data) = n
       /\ \A i \in 1 .. Len(buffers) : buffers'[i].capacity = buffers[i].capacity
       /\ \A i \in 1 .. Len(buffers') :
              Len(buffers'[i].data) <= buffers'[i].capacity]_vars

\* An insert has found the first buffer with exactly len(text) bytes of
\* capacity left and has written the text to a new buffer, allocated with the
\* sum of the lengths, more than the text needs.
C19_Witness ==
    /\ call.op = "insert"
    /\ Len(buffers) = 2
    /\ Len(buffers[2].data) > 0
    /\ buffers[1].capacity - Len(buffers[1].data) = Len(buffers[2].data)
    /\ buffers[2].capacity = Len(buffers[1].data)
    /\ buffers[2].capacity > Len(buffers[2].data)

====
